---- MODULE Spec2Model ----
(***************************************************************************)
(* Model of src/lambda_function.py: one invocation of lambda_handler, the  *)
(* scheduled pipeline  get_secret -> reddit hot listing -> VADER score ->  *)
(* DynamoDB batch_writer -> response.                                      *)
(*                                                                         *)
(* The handler is sequential; it is split into one action per call to an   *)
(* external collaborator (Secrets Manager, the PRAW listing generator, the *)
(* VADER analyzer, the DynamoDB batch writer), each of which either        *)
(* returns or raises.                                                      *)
(*                                                                         *)
(* Python floats are modelled as binary fixed-point numbers with FracBits  *)
(* fractional bits: the float k stands for k / 2^FracBits.  Decimal values *)
(* are (sign, coefficient, exponent) triples as in Python's decimal        *)
(* module, and str(float) is the shortest decimal string that reads back   *)
(* as the same float.                                                      *)
(***************************************************************************)
EXTENDS Integers, Sequences, FiniteSets, TLC

VARIABLES
    pc,                 \* position of the handler
    listing,            \* the community's hot listing at invocation time
    now,                \* last value read from the wall clock
    requests,           \* next() calls made on the lazy post sequence
    exhausted,          \* the post sequence has signalled its end
    processed_results,  \* the handler's list of records
    puts,               \* items handed to batch.put_item, in call order
    response,           \* what the handler has returned: <<>>, or <<value>>
    error,              \* the exception that left the handler, or "None"
    failure             \* the collaborator whose call failed, or "None"

vars == <<pc, listing, now, requests, exhausted, processed_results, puts,
          response, error, failure>>

-----------------------------------------------------------------------------
(* Bounds of the model *)

\* longest hot listing the community holds
MaxPosts == 3
\* largest wall-clock reading, in microseconds since the invocation started
MaxClock == 1
\* fractional bits of the modelled binary float
FracBits == 8

-----------------------------------------------------------------------------
(* Program constants *)

SUBREDDIT_NAME == "valencia"
LIMIT_POSTS == 50
STATUS_MESSAGE == "Pipeline executed successfully and data loaded to DynamoDB and S3!"

-----------------------------------------------------------------------------
(* Arithmetic helpers *)

RECURSIVE Pow(_, _)
Pow(b, e) == IF e = 0 THEN 1 ELSE b * Pow(b, e - 1)

Abs(x) == IF x < 0 THEN -x ELSE x

Max(a, b) == IF a >= b THEN a ELSE b

Min(a, b) == IF a <= b THEN a ELSE b

\* n / d rounded to the nearest integer, ties to even (n >= 0, d > 0)
RoundHalfEven(n, d) ==
    LET q == n \div d
        r == n % d
    IN  IF 2 * r < d THEN q
        ELSE IF 2 * r > d THEN q + 1
        ELSE IF q % 2 = 0 THEN q ELSE q + 1

-----------------------------------------------------------------------------
(* Python float, str(float), Decimal *)

\* the float k stands for k / Scale
Scale == Pow(2, FracBits)

\* every float in [-1.0, 1.0]
Floats == (-Scale)..Scale

\* the float nearest to coef / 10^exp: how Python reads a decimal literal
FloatOfDecimal(coef, exp) ==
    LET m == RoundHalfEven(Abs(coef) * Scale, Pow(10, exp))
    IN  IF coef < 0 THEN -m ELSE m

\* the least number of fractional digits with which a decimal reads back as m
RECURSIVE ShortestExp(_, _)
ShortestExp(m, e) ==
    IF FloatOfDecimal(RoundHalfEven(m * Pow(10, e), Scale), e) = m
    THEN e
    ELSE ShortestExp(m, e + 1)

Digits == <<"0", "1", "2", "3", "4", "5", "6", "7", "8", "9">>

DigitChar(d) == Digits[d + 1]

DigitVal(c) == CHOOSE d \in 0..9 : Digits[d + 1] = c

\* n written with exactly w digits
RECURSIVE FracDigits(_, _)
FracDigits(n, w) ==
    IF w = 0 THEN <<>>
    ELSE Append(FracDigits(n \div 10, w - 1), DigitChar(n % 10))

\* str(x) of a float x in [-1.0, 1.0]: the shortest digit string that reads
\* back as x, with at least one fractional digit ("0.0", "0.1", "-0.05")
PyStr(k) ==
    LET m == Abs(k)
        e == ShortestExp(m, 0)
        w == Max(e, 1)
        coef == RoundHalfEven(m * Pow(10, e), Scale) * Pow(10, w - e)
    IN  (IF k < 0 THEN <<"-">> ELSE <<>>)
            \o <<DigitChar(coef \div Pow(10, w)), ".">>
            \o FracDigits(coef % Pow(10, w), w)

\* value of a digit string read left to right
RECURSIVE DigitsValue(_)
DigitsValue(s) ==
    IF s = <<>> THEN 0
    ELSE 10 * DigitsValue(SubSeq(s, 1, Len(s) - 1)) + DigitVal(s[Len(s)])

\* Decimal(s) of a string s = [-]digits.digits: exact, digits kept as written
PyDecimal(s) ==
    LET neg == s # <<>> /\ s[1] = "-"
        body == IF neg THEN Tail(s) ELSE s
        dot == CHOOSE i \in 1..Len(body) : body[i] = "."
        ds == SubSeq(body, 1, dot - 1) \o SubSeq(body, dot + 1, Len(body))
    IN  [type |-> "Decimal", sign |-> IF neg THEN 1 ELSE 0,
         coef |-> DigitsValue(ds), exp |-> Len(body) - dot]

\* a coefficient and exponent with the trailing zeros removed
RECURSIVE StripZeros(_, _)
StripZeros(coef, exp) ==
    IF exp > 0 /\ coef % 10 = 0 THEN StripZeros(coef \div 10, exp - 1)
    ELSE <<coef, exp>>

\* Decimal(x) applied to the float itself: the exact value of the binary float
\* (the direct cast the handler avoids)
ScoreToDecimalCast(x) ==
    LET ce == StripZeros(Abs(x.k) * Pow(5, FracBits), FracBits)
    IN  [type |-> "Decimal", sign |-> IF x.k < 0 THEN 1 ELSE 0,
         coef |-> ce[1], exp |-> ce[2]]

\* item['SentimentScore'] = Decimal(str(item['SentimentScore']))
ScoreToDecimal(x) == PyDecimal(PyStr(x.k))

-----------------------------------------------------------------------------
(* The external collaborators *)

\* A title is identified with the compound polarity the analyzer gives it:
\* VADER_ANALYZER.polarity_scores(title)['compound'], a float in [-1.0, 1.0],
\* the same for the same title.
polarity_scores(title) == title

\* titles of the pipeline runs: the two thresholds, neutral, and 0.1
Titles == {FloatOfDecimal(-5, 2), 0, FloatOfDecimal(5, 2), FloatOfDecimal(1, 1)}

\* the hot listings of at most longest posts, ranked by the source
Listings(titles, longest) ==
    UNION {[1..n -> [id : {0}, title : titles]] : n \in 0..longest}

\* post ids are given by the rank so that they are unique within a listing
WithIds(l) == [i \in 1..Len(l) |-> [id |-> i, title |-> l[i].title]]

\* reddit.subreddit(SUBREDDIT_NAME).hot(limit=LIMIT_POSTS): at most limit posts
hot(l, limit) == SubSeq(l, 1, Min(Len(l), limit))

posts == hot(listing, LIMIT_POSTS)

\* datetime.datetime.now() reads the wall clock: any value the clock can show
ClockReadings == 0..MaxClock

\* datetime.isoformat() of a time t in microseconds: "...:SS" when the
\* microsecond part is zero, "...:SS.ffffff" otherwise
isoformat(t) ==
    IF t % 1000000 = 0 THEN <<t \div 1000000>>
    ELSE <<t \div 1000000, t % 1000000>>

-----------------------------------------------------------------------------
(* The handler's own computations *)

\* the thresholds taken as exclusive
SentimentLabelStrict(compound) ==
    IF compound > FloatOfDecimal(5, 2) THEN "Positive"
    ELSE IF compound < -FloatOfDecimal(5, 2) THEN "Negative"
    ELSE "Neutral"

\* 'Positive' if compound >= 0.05 else ('Negative' if compound <= -0.05 else 'Neutral')
SentimentLabel(compound) ==
    IF compound >= FloatOfDecimal(5, 2) THEN "Positive"
    ELSE IF compound <= -FloatOfDecimal(5, 2) THEN "Negative"
    ELSE "Neutral"

\* the record appended for one post, stamped with the clock reading t
Record(post, t) ==
    LET compound == polarity_scores(post.title)
    IN  [SubredditName |-> SUBREDDIT_NAME,
         Timestamp |-> isoformat(t),
         PostID |-> post.id,
         Title |-> post.title,
         SentimentScore |-> [type |-> "float", k |-> compound],
         SentimentLabel |-> SentimentLabel(compound)]

\* the conversion of the score together with the timestamp cut to whole seconds
ItemForPutCutsTime(item) ==
    [item EXCEPT !.SentimentScore = ScoreToDecimal(item.SentimentScore),
                 !.Timestamp = <<item.Timestamp[1]>>]

\* the item as it is handed to batch.put_item
ItemForPut(item) ==
    [item EXCEPT !.SentimentScore = ScoreToDecimal(item.SentimentScore)]

\* json.dumps of the summary: the key/value pairs in order
json_dumps(count, status) == <<<<"posts_count", count>>, <<"status", status>>>>

\* the response with the configured limit in place of the count
ResponseLimit(results) ==
    [statusCode |-> 200, body |-> json_dumps(LIMIT_POSTS, STATUS_MESSAGE)]

\* the value lambda_handler returns
Response(results) ==
    [statusCode |-> 200, body |-> json_dumps(Len(results), STATUS_MESSAGE)]

-----------------------------------------------------------------------------
(* Initial states *)

InitWith(titles, longest) ==
    /\ pc = "get_secret"
    /\ listing \in {WithIds(l) : l \in Listings(titles, longest)}
    /\ now = 0
    /\ requests = 0
    /\ exhausted = FALSE
    /\ processed_results = <<>>
    /\ puts = <<>>
    /\ response = <<>>
    /\ error = "None"
    /\ failure = "None"

\* any listing of up to MaxPosts posts over the pipeline titles
Init == InitWith(Titles, MaxPosts)

\* a listing of at most one post whose title has any compound score
InitScore == InitWith(Floats, 1)

-----------------------------------------------------------------------------------------------------------------------------------------------------
(* Actions: lambda_handler, one per external call *)

\* an exception leaves the handler
Raise(e) ==
    /\ pc' = "failed"
    /\ error' = e

\* get_secret() returns the credentials; praw.Reddit and the lazy hot()
\* generator are built, which makes no request
GetSecretOk ==
    /\ pc = "get_secret"
    /\ pc' = "score"
    /\ UNCHANGED <<listing, now, requests, exhausted, processed_results, puts,
                   response, error, failure>>

\* the failure of the secret store printed and not re-raised
GetSecretFailSwallowed ==
    /\ pc = "get_secret"
    /\ failure' = "secretsmanager"
    /\ pc' = "score"
    /\ UNCHANGED <<listing, now, requests, exhausted, processed_results, puts,
                   response, error>>

\* get_secret() fails: ClientError is printed and re-raised, or the payload
\* is not the expected JSON object (json.loads, PRAW_CREDENTIALS['client_id'])
GetSecretFail ==
    /\ pc = "get_secret"
    /\ failure' = "secretsmanager"
    /\ \E e \in {"ClientError", "JSONDecodeError", "KeyError"} : Raise(e)
    /\ UNCHANGED <<listing, now, requests, exhausted, processed_results, puts,
                   response>>

\* the record written to the table as soon as it is built
ScorePostAndPut ==
    /\ pc = "score"
    /\ Len(processed_results) < Len(posts)
    /\ \E t \in ClockReadings :
        LET item == ItemForPut(Record(posts[Len(processed_results) + 1], t))
        IN  /\ now' = t
            /\ processed_results' = Append(processed_results, item)
            /\ puts' = Append(puts, item)
    /\ requests' = requests + 1
    /\ UNCHANGED <<pc, listing, exhausted, response, error, failure>>

\* one iteration of "for post in posts": the next post is fetched, scored,
\* stamped and appended
ScorePost ==
    /\ pc = "score"
    /\ Len(processed_results) < Len(posts)
    /\ \E t \in ClockReadings :
        /\ now' = t
        /\ processed_results' =
                Append(processed_results,
                       Record(posts[Len(processed_results) + 1], t))
    /\ requests' = requests + 1
    /\ UNCHANGED <<pc, listing, exhausted, puts, response, error, failure>>

\* the post sequence ends: the loop is left and the batch writer is entered
PostsExhausted ==
    /\ pc = "score"
    /\ Len(processed_results) = Len(posts)
    /\ requests' = requests + 1
    /\ exhausted' = TRUE
    /\ pc' = "persist"
    /\ UNCHANGED <<listing, now, processed_results, puts, response, error,
                   failure>>

\* the failure of the fetch taken as the end of the posts
FetchFailEndsLoop ==
    /\ pc = "score"
    /\ requests' = requests + 1
    /\ failure' = "reddit"
    /\ pc' = "persist"
    /\ UNCHANGED <<listing, now, exhausted, processed_results, puts, response,
                   error>>

\* the lazy post sequence raises when asked for the next post
FetchFail ==
    /\ pc = "score"
    /\ requests' = requests + 1
    /\ failure' = "reddit"
    /\ Raise("PrawException")
    /\ UNCHANGED <<listing, now, exhausted, processed_results, puts, response>>

\* polarity_scores raises on the post just fetched
ScoreFail ==
    /\ pc = "score"
    /\ Len(processed_results) < Len(posts)
    /\ requests' = requests + 1
    /\ failure' = "vader"
    /\ Raise("ScorerException")
    /\ UNCHANGED <<listing, now, exhausted, processed_results, puts, response>>

\* one iteration of "for item in processed_results": the score is replaced
\* by its Decimal in the record itself, and the record is handed to put_item
PutItem ==
    /\ pc = "persist"
    /\ Len(puts) < Len(processed_results)
    /\ LET i == Len(puts) + 1
           item == ItemForPut(processed_results[i])
       IN  /\ processed_results' = [processed_results EXCEPT ![i] = item]
           /\ puts' = Append(puts, item)
    /\ UNCHANGED <<pc, listing, now, requests, exhausted, response, error,
                   failure>>

\* the failure of a put answered with an error response
PutItemFailResponds ==
    /\ pc = "persist"
    /\ Len(puts) < Len(processed_results)
    /\ LET i == Len(puts) + 1
       IN  processed_results' =
                [processed_results EXCEPT ![i] = ItemForPut(processed_results[i])]
    /\ failure' = "dynamodb"
    /\ response' = <<[statusCode |-> 500, body |-> json_dumps(Len(puts), "error")]>>
    /\ pc' = "done"
    /\ UNCHANGED <<listing, now, requests, exhausted, puts, error>>

\* the failure of a put followed by the removal of the items already put
PutItemFailRollback ==
    /\ pc = "persist"
    /\ Len(puts) < Len(processed_results)
    /\ LET i == Len(puts) + 1
       IN  processed_results' =
                [processed_results EXCEPT ![i] = ItemForPut(processed_results[i])]
    /\ failure' = "dynamodb"
    /\ puts' = <<>>
    /\ Raise("ClientError")
    /\ UNCHANGED <<listing, now, requests, exhausted, response>>

\* put_item raises ClientError (a flush of the buffer failed): the score of
\* the record was already replaced; the error is printed and re-raised
PutItemFail ==
    /\ pc = "persist"
    /\ Len(puts) < Len(processed_results)
    /\ LET i == Len(puts) + 1
       IN  processed_results' =
                [processed_results EXCEPT ![i] = ItemForPut(processed_results[i])]
    /\ failure' = "dynamodb"
    /\ Raise("ClientError")
    /\ UNCHANGED <<listing, now, requests, exhausted, puts, response>>

\* leaving the "with" block flushes what is buffered; then the response is
\* built and returned
BatchExitOk ==
    /\ pc = "persist"
    /\ Len(puts) = Len(processed_results)
    /\ response' = <<Response(processed_results)>>
    /\ pc' = "done"
    /\ UNCHANGED <<listing, now, requests, exhausted, processed_results, puts,
                   error, failure>>

\* the flush on leaving the "with" block raises ClientError: printed and
\* re-raised (with nothing buffered there is nothing to flush)
BatchExitFail ==
    /\ pc = "persist"
    /\ Len(puts) = Len(processed_results)
    /\ Len(puts) > 0
    /\ failure' = "dynamodb"
    /\ Raise("ClientError")
    /\ UNCHANGED <<listing, now, requests, exhausted, processed_results, puts,
                   response>>

Next ==
    \/ GetSecretOk
    \/ GetSecretFail
    \/ ScorePost
    \/ PostsExhausted
    \/ FetchFail
    \/ ScoreFail
    \/ PutItem
    \/ PutItemFail
    \/ BatchExitOk
    \/ BatchExitFail

\* every listing of up to MaxPosts posts over the pipeline titles
Spec == Init /\ [][Next]_vars

\* one post whose title has any compound score in [-1.0, 1.0]
SpecScore == InitScore /\ [][Next]_vars

-----------------------------------------------------------------------------
(* Properties *)

\* exact value of a stored score, float or Decimal, as numerator / denominator
ScoreNum(x) ==
    IF x.type = "float" THEN x.k
    ELSE IF x.sign = 1 THEN -x.coef ELSE x.coef

ScoreDen(x) == IF x.type = "float" THEN Scale ELSE Pow(10, x.exp)

\* order of two isoformat strings, as strings compare: field by field, a
\* string that is a prefix of another comes first
TsLess(a, b) ==
    \/ a[1] < b[1]
    \/ a[1] = b[1] /\ Len(a) = 1 /\ Len(b) = 2
    \/ a[1] = b[1] /\ Len(a) = 2 /\ Len(b) = 2 /\ a[2] < b[2]

IsPrefix(s, t) == Len(s) <= Len(t) /\ s = SubSeq(t, 1, Len(s))

\* the fields of a record other than its score
Unscored(r) == <<r.SubredditName, r.Timestamp, r.PostID, r.Title, r.SentimentLabel>>

\* C1: in every record the label is Positive exactly when the score is at
\* least 0.05, Negative exactly when it is at most -0.05 and Neutral exactly
\* when it lies strictly between; the scores 0.05, -0.05 and 0.0 are labelled
\* Positive, Negative and Neutral; every record has exactly one of the labels.
LabelMatchesThresholds ==
    \A i \in 1..Len(processed_results) :
        LET r == processed_results[i]
            n == ScoreNum(r.SentimentScore)
            d == ScoreDen(r.SentimentScore)
            c == polarity_scores(r.Title)
        IN  /\ r.SentimentLabel \in {"Positive", "Negative", "Neutral"}
            /\ (r.SentimentLabel = "Positive") <=> (100 * n >= 5 * d)
            /\ (r.SentimentLabel = "Negative") <=> (100 * n <= -5 * d)
            /\ (r.SentimentLabel = "Neutral")
                    <=> (-5 * d < 100 * n /\ 100 * n < 5 * d)
            /\ (r.SentimentLabel = "Positive") <=> (100 * c >= 5 * Scale)
            /\ (r.SentimentLabel = "Negative") <=> (100 * c <= -5 * Scale)
            /\ c = FloatOfDecimal(5, 2) => r.SentimentLabel = "Positive"
            /\ c = FloatOfDecimal(-5, 2) => r.SentimentLabel = "Negative"
            /\ c = 0 => r.SentimentLabel = "Neutral"

\* C1 witness: a post whose score is exactly the float 0.05 was labelled Positive
LabelAtBoundaryReached ==
    \E i \in 1..Len(processed_results) :
        /\ processed_results[i].SentimentScore =
                [type |-> "float", k |-> FloatOfDecimal(5, 2)]
        /\ processed_results[i].SentimentLabel = "Positive"

\* C2: when the call to the secret store has failed, the handler has raised,
\* no post was requested from the content API, nothing was built or put, and
\* no response was returned.
SecretFailureAbortsBeforeFetch ==
    failure = "secretsmanager" =>
        /\ pc = "failed"
        /\ error \in {"ClientError", "JSONDecodeError", "KeyError"}
        /\ requests = 0
        /\ processed_results = <<>>
        /\ puts = <<>>
        /\ response = <<>>

\* C2 witness: the secret store failed with a ClientError
SecretFailureReached == failure = "secretsmanager" /\ error = "ClientError"

\* C3: when a write to the table has failed after at least one post was
\* fetched and scored, the handler has raised the ClientError and no response
\* was returned.
PersistFailureAborts ==
    failure = "dynamodb" =>
        /\ Len(processed_results) >= 1
        /\ exhausted
        /\ pc = "failed"
        /\ error = "ClientError"
        /\ response = <<>>

\* C3 witness: a put failed after two posts were scored and one was put
PersistFailureReached ==
    /\ failure = "dynamodb"
    /\ Len(processed_results) >= 2
    /\ Len(puts) = 1

\* C4: a run that returns has built one record per fetched post (at most
\* LIMIT_POSTS), all with the same SubredditName, has put each record once,
\* and returns statusCode 200 with posts_count equal to the number of posts;
\* with no post the batch is empty and posts_count is 0.
SuccessCountsEveryPost ==
    pc = "done" =>
        LET N == requests - 1
        IN  /\ failure = "None" /\ error = "None"
            /\ N = Len(posts)
            /\ N <= LIMIT_POSTS
            /\ Len(processed_results) = N
            /\ \A i \in 1..N : processed_results[i].SubredditName = SUBREDDIT_NAME
            /\ \A i, j \in 1..N :
                    processed_results[i].SubredditName
                        = processed_results[j].SubredditName
            /\ Len(puts) = N
            /\ \A i \in 1..N : puts[i] = processed_results[i]
            /\ Len(response) = 1
            /\ response[1].statusCode = 200
            /\ response[1].body[1] = <<"posts_count", N>>
            /\ response[1].body[2] = <<"status", STATUS_MESSAGE>>
            /\ (listing = <<>> => puts = <<>> /\ response[1].body[1][2] = 0)

\* C4 witness: a run over two posts returned
SuccessReached == pc = "done" /\ Len(listing) = 2 /\ Len(puts) = 2

\* C5: each record carries the clock reading taken when it was scored, and
\* the timestamps of the records, in build order, strictly increase (they are
\* non-decreasing and no two are equal).
TimestampsDistinctAndOrdered ==
    /\ (pc = "score" /\ processed_results # <<>>) =>
            processed_results[Len(processed_results)].Timestamp = isoformat(now)
    /\ \A i, j \in 1..Len(processed_results) :
            i < j => TsLess(processed_results[i].Timestamp,
                            processed_results[j].Timestamp)

\* C6 as stated: once appended, no record is changed by any later step.
RecordsNeverChange ==
    [][\A i \in 1..Len(processed_results) :
            processed_results'[i] = processed_results[i]]_vars

\* C6 amended: once appended, a record stays in its place and keeps every
\* field but SentimentScore; the score is replaced only by the persist step,
\* only for the record being put, once, from the float to the Decimal of its
\* string.
RecordsChangeOnlyScore ==
    [][/\ Len(processed_results') >= Len(processed_results)
       /\ \A i \in 1..Len(processed_results) :
            LET old == processed_results[i]
                new == processed_results'[i]
            IN  /\ Unscored(new) = Unscored(old)
                /\ new.SentimentScore # old.SentimentScore =>
                        /\ pc = "persist"
                        /\ i = Len(puts) + 1
                        /\ old.SentimentScore.type = "float"
                        /\ new.SentimentScore
                                = PyDecimal(PyStr(old.SentimentScore.k))]_vars

\* C6 witness: the persist step has replaced the score of a built record
ScoreReplacedReached ==
    \E i \in 1..Len(processed_results) :
        /\ processed_results[i].SentimentScore.type = "Decimal"
        /\ puts # <<>>

\* C7: the score of every item handed to put is a Decimal, not a float; it
\* is the Decimal of the score's string, which reads back as the score and
\* has the fewest digits that do (one at least), so the float 0.1 is stored
\* as 0.1 and not as the expansion of the binary value.
PutScoreIsDecimalOfString ==
    \A i \in 1..Len(puts) :
        LET x == puts[i].SentimentScore
            c == polarity_scores(puts[i].Title)
        IN  /\ x.type = "Decimal"
            /\ x = PyDecimal(PyStr(c))
            /\ FloatOfDecimal(ScoreNum(x), x.exp) = c
            /\ x.exp >= 1
            /\ \A e \in 1..(x.exp - 1) : \A m \in 0..Pow(10, e) :
                    FloatOfDecimal(m, e) # Abs(c)
            /\ c = FloatOfDecimal(1, 1) =>
                    x = [type |-> "Decimal", sign |-> 0, coef |-> 1, exp |-> 1]

\* C7 witness: an item whose score is the float 0.1, which is not 1/10, was
\* handed to put with the Decimal 0.1
PutOfOneTenthReached ==
    \E i \in 1..Len(puts) :
        /\ polarity_scores(puts[i].Title) = FloatOfDecimal(1, 1)
        /\ 10 * FloatOfDecimal(1, 1) # Scale
        /\ puts[i].SentimentScore.coef = 1
        /\ puts[i].SentimentScore.exp = 1

\* C8: when the post sequence or the scorer has failed, the handler has
\* raised, nothing was put and no response was returned, however many posts
\* were scored before.
FetchOrScoreFailureAborts ==
    failure \in {"reddit", "vader"} =>
        /\ pc = "failed"
        /\ error = (IF failure = "reddit" THEN "PrawException" ELSE "ScorerException")
        /\ puts = <<>>
        /\ response = <<>>

\* C8 witness: the post sequence failed part-way, after two posts were scored
FetchFailurePartWayReached ==
    /\ failure = "reddit"
    /\ Len(processed_results) = 2
    /\ Len(processed_results) < Len(posts)

\* the handler has a next step that is not a failure: the guard of
\* GetSecretOk, of ScorePost or PostsExhausted, of PutItem or BatchExitOk
CanContinue ==
    \/ pc = "get_secret"
    \/ pc = "score" /\ Len(processed_results) <= Len(posts)
    \/ pc = "persist" /\ Len(puts) <= Len(processed_results)

\* what C9 says of each state
EndsOneOfTwoWays ==
    /\ pc \in {"done", "failed"} \/ CanContinue
    /\ (pc = "done") <=> (response # <<>>)
    /\ (pc = "failed") <=> (error # "None")
    /\ pc = "done" =>
            /\ failure = "None"
            /\ exhausted /\ Len(processed_results) = Len(posts)
            /\ puts = processed_results
    /\ IsPrefix(puts, processed_results)

\* what C9 says of each step
NoRollback ==
    /\ IsPrefix(puts, puts')
    /\ pc \in {"done", "failed"} => UNCHANGED vars

\* C9: a run ends either returned, with every fetched post scored and put,
\* or raised, with no response, and in no third way; the items put are
\* always a prefix of the records in list order (so also when a write
\* fails), and no step removes an item that was put.
AllOrRaiseWithPrefix == []EndsOneOfTwoWays /\ [][NoRollback]_vars

\* C9 witness: a write failed with a proper, non-empty prefix put
PartialPrefixReached ==
    /\ failure = "dynamodb"
    /\ pc = "failed"
    /\ 0 < Len(puts)
    /\ Len(puts) < Len(processed_results)

\* order of the stages
Stage(p) ==
    CASE p = "get_secret" -> 1
      [] p = "score" -> 2
      [] p = "persist" -> 3
      [] p \in {"done", "failed"} -> 4

\* what C10 says of each state
PutsFollowScoring ==
    /\ (puts # <<>> \/ pc = "persist") =>
            /\ exhausted
            /\ Len(processed_results) = Len(posts)
    /\ Len(puts) <= Len(posts)
    /\ \A i \in 1..Len(puts) : puts[i].PostID = posts[i].id
    /\ \A i, j \in 1..Len(puts) : i # j => puts[i].PostID # puts[j].PostID
    /\ response # <<>> => exhausted /\ Len(puts) = Len(posts)

\* what C10 says of each step
StagesOnlyForward ==
    /\ Stage(pc') >= Stage(pc)
    /\ (puts # <<>> \/ pc \in {"persist", "done"}) =>
            /\ requests' = requests
            /\ Len(processed_results') = Len(processed_results)
    /\ Len(puts') <= Len(puts) + 1

\* C10: the first put comes only after the post sequence is exhausted and
\* every post is built into a record; puts follow the fetch order, one per
\* record; the response comes only after the last put; the stages never go
\* back, and once persisting has started no post is fetched or scored.
StagesStrictlyForward == []PutsFollowScoring /\ [][StagesOnlyForward]_vars

\* C10 witness: the response was returned after three puts in fetch order
ForwardRunReached ==
    /\ pc = "done"
    /\ Len(puts) = 3
    /\ \A i \in 1..3 : puts[i].PostID = i

====
